---- MODULE Spec2Model ----
(***************************************************************************)
(* Verification model of the market_place inventory code:                  *)
(*   src/src/product.py      Product, Smartphone, LawnGrass                *)
(*   src/src/category.py     Category                                      *)
(*   src/src/data_loader.py  load_categories_from_json                     *)
(*                                                                         *)
(* Numbers.  A price is a Python float; the model keeps it as an integer   *)
(* count of half units (price 3 stands for 1.5), which is exact for +, *,  *)
(* max, < and ==.  A quantity is a Python int.  The special floats (nan,   *)
(* inf) are not product field values in the model; an infinite or          *)
(* oversized number appears only as a loosely typed record value, where    *)
(* the coercions float() and int() reject it.                              *)
(*                                                                         *)
(* Objects.  heap is the sequence of allocated objects, an object's        *)
(* identity is its index: products, builtin values, lists and tuples       *)
(* (their items are references) and categories (the private product list   *)
(* is a reference to a list object).  category_count and product_count     *)
(* are the class attributes of Category.  last is the outcome of the       *)
(* latest call.                                                            *)
(* pending holds the arguments of a call that a specification fixes in     *)
(* its initial state; the general specification draws arguments afresh at  *)
(* every step and leaves pending empty.                                    *)
(***************************************************************************)
EXTENDS Integers, Sequences, FiniteSets, TLC

VARIABLES heap, last, pending, category_count, product_count

vars == <<heap, last, pending, category_count, product_count>>

(* the class attributes Category.category_count, Category.product_count *)
counters == <<category_count, product_count>>

----------------------------------------------------------------------------
(* Bounds of the explored inputs.                                          *)

MaxPrice == 2
MaxQty == 2

(* the longest list, the largest value of the two class counters, and the *)
(* largest number of category-records in a source                          *)
MaxLen == 2
MaxCount == 3
MaxRecords == 3

(* references that an allocation may return: the calls of one behaviour    *)
(* concern one allocated object (the two operands of + and == are given    *)
(* in the initial state)                                                   *)
Refs == {1}

Names == {"a", "b"}
Descs == {"d", "e"}
Kinds == {"Product", "Smartphone", "LawnGrass"}

Prices == 0..MaxPrice
Qtys == 0..MaxQty
PriceArgs == (-1)..MaxPrice
QtyArgs == (-1)..MaxQty

(* input() answers; NoInput: input() is not called; EOF: it raises EOFError *)
Responses == {"y", "Y", "n", "yes", "EOF"}
NoInput == "-"

----------------------------------------------------------------------------
(* Outcome of a call: normal return or the class of the raised exception.  *)

Outcomes == {"ok", "ValueError", "TypeError", "KeyError", "OverflowError"}

NoCall == [op |-> "none", outcome |-> "ok", self |-> 0, other |-> 0, ret |-> 0,
           truth |-> FALSE, merged |-> FALSE, prompted |-> FALSE, value |-> 0,
           response |-> NoInput, items |-> <<>>, text |-> <<>>]

IsProduct(o) == o.kind \in Kinds

----------------------------------------------------------------------------
(* Product.__init__, Smartphone.__init__, LawnGrass.__init__               *)

Product_init_unchecked(name, description, price, quantity) ==
    [outcome |-> "ok",
     obj |-> [kind |-> "Product", name |-> name, description |-> description,
              price |-> price, quantity |-> quantity]]

Product_init_rejects_zero(name, description, price, quantity) ==
    IF price <= 0 THEN [outcome |-> "ValueError", obj |-> [kind |-> "NoneType"]]
    ELSE IF quantity <= 0 THEN [outcome |-> "ValueError", obj |-> [kind |-> "NoneType"]]
    ELSE [outcome |-> "ok",
          obj |-> [kind |-> "Product", name |-> name, description |-> description,
                   price |-> price, quantity |-> quantity]]

Product_init_price_only(name, description, price, quantity) ==
    IF price < 0 THEN [outcome |-> "ValueError", obj |-> [kind |-> "NoneType"]]
    ELSE [outcome |-> "ok",
          obj |-> [kind |-> "Product", name |-> name, description |-> description,
                   price |-> price, quantity |-> quantity]]

Product_init(name, description, price, quantity) ==
    IF price < 0 THEN [outcome |-> "ValueError", obj |-> [kind |-> "NoneType"]]
    ELSE IF quantity < 0 THEN [outcome |-> "ValueError", obj |-> [kind |-> "NoneType"]]
    ELSE [outcome |-> "ok",
          obj |-> [kind |-> "Product", name |-> name, description |-> description,
                   price |-> price, quantity |-> quantity]]

Smartphone_init(name, description, price, quantity, x) ==
    LET base == Product_init(name, description, price, quantity) IN
    IF base.outcome # "ok" THEN base
    ELSE [outcome |-> "ok",
          obj |-> [kind |-> "Smartphone", name |-> base.obj.name,
                   description |-> base.obj.description, price |-> base.obj.price,
                   quantity |-> base.obj.quantity,
                   efficiency |-> x.efficiency, model |-> x.model,
                   memory |-> x.memory, color |-> x.color]]

LawnGrass_init(name, description, price, quantity, x) ==
    LET base == Product_init(name, description, price, quantity) IN
    IF base.outcome # "ok" THEN base
    ELSE [outcome |-> "ok",
          obj |-> [kind |-> "LawnGrass", name |-> base.obj.name,
                   description |-> base.obj.description, price |-> base.obj.price,
                   quantity |-> base.obj.quantity,
                   country |-> x.country, germination_period |-> x.germination_period,
                   color |-> x.color]]

(* the variant specific constructor arguments *)
SmartphoneExtra == [efficiency |-> 1, model |-> "m", memory |-> 1, color |-> "c"]
LawnGrassExtra == [country |-> "c", germination_period |-> "g", color |-> "c"]
NoExtra == [none |-> 0]

SmartphoneExtras ==
    {SmartphoneExtra,
     [SmartphoneExtra EXCEPT !.efficiency = 2], [SmartphoneExtra EXCEPT !.model = "n"],
     [SmartphoneExtra EXCEPT !.memory = 2], [SmartphoneExtra EXCEPT !.color = "k"]}

LawnGrassExtras ==
    {LawnGrassExtra,
     [LawnGrassExtra EXCEPT !.country = "k"],
     [LawnGrassExtra EXCEPT !.germination_period = "h"],
     [LawnGrassExtra EXCEPT !.color = "k"]}

Extras(kind) ==
    IF kind = "Smartphone" THEN SmartphoneExtras
    ELSE IF kind = "LawnGrass" THEN LawnGrassExtras
    ELSE {NoExtra}

(* the call kind(name, description, price, quantity, *extra) *)
Construct_call(kind, name, description, price, quantity, x) ==
    IF kind = "Smartphone" THEN Smartphone_init(name, description, price, quantity, x)
    ELSE IF kind = "LawnGrass" THEN LawnGrass_init(name, description, price, quantity, x)
    ELSE Product_init(name, description, price, quantity)

----------------------------------------------------------------------------
(* Product.price: getter and setter                                        *)

price_getter(self) ==
    IF self.price < 0 THEN [outcome |-> "ValueError", ret |-> 0]
    ELSE [outcome |-> "ok", ret |-> self.price]

(* str.lower() on the modelled answers *)
lower(s) == IF s = "Y" THEN "y" ELSE s

price_setter_accepts_zero(self, value, response) ==
    IF value < 0 THEN [outcome |-> "ValueError", obj |-> self, prompted |-> FALSE, response |-> NoInput]
    ELSE IF value < self.price
    THEN IF response = "EOF" \/ lower(response) # "y"
         THEN [outcome |-> "ok", obj |-> self, prompted |-> TRUE, response |-> response]
         ELSE [outcome |-> "ok", obj |-> [self EXCEPT !.price = value], prompted |-> TRUE, response |-> response]
    ELSE [outcome |-> "ok", obj |-> [self EXCEPT !.price = value], prompted |-> FALSE, response |-> NoInput]

price_setter_no_confirmation(self, value, response) ==
    IF value <= 0 THEN [outcome |-> "ValueError", obj |-> self, prompted |-> FALSE, response |-> NoInput]
    ELSE [outcome |-> "ok", obj |-> [self EXCEPT !.price = value], prompted |-> FALSE, response |-> NoInput]

price_setter(self, value, response) ==
    IF value <= 0 THEN [outcome |-> "ValueError", obj |-> self, prompted |-> FALSE, response |-> NoInput]
    ELSE IF value < self.price
    THEN IF response = "EOF" THEN [outcome |-> "ok", obj |-> self, prompted |-> TRUE, response |-> response]
         ELSE IF lower(response) # "y"
         THEN [outcome |-> "ok", obj |-> self, prompted |-> TRUE, response |-> response]
         ELSE [outcome |-> "ok", obj |-> [self EXCEPT !.price = value], prompted |-> TRUE, response |-> response]
    ELSE [outcome |-> "ok", obj |-> [self EXCEPT !.price = value], prompted |-> FALSE, response |-> NoInput]

price_setter_outcomes(self, value) ==
    UNION {IF r0.prompted
           THEN {price_setter(self, value, r) : r \in Responses}
           ELSE {r0} : r0 \in {price_setter(self, value, "EOF")}}

----------------------------------------------------------------------------
(* Loosely typed record values, as json.load produces them: a number (h is *)
(* its value in half units, so an odd h is a float with fraction .5), a    *)
(* string, null, a float infinity, an integer beyond the float range; and  *)
(* Absent for a key that the record does not have.                         *)

Num(h) == [t |-> "num", h |-> h, s |-> ""]
Str(s) == [t |-> "str", h |-> 0, s |-> s]
Null == [t |-> "null", h |-> 0, s |-> ""]
Inf == [t |-> "inf", h |-> 0, s |-> ""]
Big == [t |-> "big", h |-> 0, s |-> ""]
Absent == [t |-> "absent", h |-> 0, s |-> ""]

(* float(v): a number converts exactly; a string is parsed; None raises    *)
(* TypeError; an integer beyond the float range raises OverflowError       *)
py_float(v) ==
    CASE v.t = "num" -> [outcome |-> "ok", v |-> v.h]
      [] v.t = "str" -> IF v.s = "0.5" THEN [outcome |-> "ok", v |-> 1]
                        ELSE IF v.s = "1" THEN [outcome |-> "ok", v |-> 2]
                        ELSE [outcome |-> "ValueError", v |-> 0]
      [] v.t = "null" -> [outcome |-> "TypeError", v |-> 0]
      [] v.t = "big" -> [outcome |-> "OverflowError", v |-> 0]

(* int(v): a number is truncated toward zero; a string must be an integer  *)
(* literal; None raises TypeError; a float infinity raises OverflowError   *)
py_int(v) ==
    CASE v.t = "num" -> [outcome |-> "ok",
                         v |-> IF v.h >= 0 THEN v.h \div 2 ELSE -((-v.h) \div 2)]
      [] v.t = "str" -> IF v.s = "1" THEN [outcome |-> "ok", v |-> 1]
                        ELSE [outcome |-> "ValueError", v |-> 0]
      [] v.t = "null" -> [outcome |-> "TypeError", v |-> 0]
      [] v.t = "inf" -> [outcome |-> "OverflowError", v |-> 0]

max(a, b) == IF b > a THEN b ELSE a

(* the optional argument existing_products: not given (None) or a list of  *)
(* references                                                              *)
NoExisting == [given |-> FALSE, refs |-> <<>>]
Existing(refs) == [given |-> TRUE, refs |-> refs]

(* positions of existing_products whose product has the name *)
Matches(h, existing, name) ==
    {k \in 1..Len(existing.refs) : h[existing.refs[k]].name = name}

FirstMatch(h, existing, name) ==
    CHOOSE k \in Matches(h, existing, name) :
        \A j \in Matches(h, existing, name) : k <= j

RequiredKeys == {"name", "description", "price", "quantity"}

Raised(h, outcome) ==
    [outcome |-> outcome, heap |-> h, ret |-> 0, merged |-> FALSE, prompted |-> FALSE,
     response |-> NoInput]

(* the merge branch of new_product, lines 200-206, on existing product i:  *)
(* quantity is assigned first, then the price through the setter (set is   *)
(* its result, which may be a raised ValueError), then the description     *)
new_product_assign(h, i, set, description) ==
    IF set.outcome # "ok"
    THEN [outcome |-> set.outcome, heap |-> [h EXCEPT ![i] = set.obj], ret |-> 0,
          merged |-> FALSE, prompted |-> set.prompted, response |-> set.response]
    ELSE [outcome |-> "ok",
          heap |-> [h EXCEPT ![i] = [set.obj EXCEPT !.description = description]],
          ret |-> i, merged |-> TRUE, prompted |-> set.prompted,
          response |-> set.response]

new_product_merge_takes_record_price(h, i, description, price, quantity, response) ==
    IF price_getter(h[i]).outcome # "ok" THEN Raised(h, price_getter(h[i]).outcome)
    ELSE new_product_assign(h, i,
             price_setter([h[i] EXCEPT !.quantity = h[i].quantity + quantity],
                          price, response),
             description)

new_product_merge(h, i, description, price, quantity, response) ==
    IF price_getter(h[i]).outcome # "ok" THEN Raised(h, price_getter(h[i]).outcome)
    ELSE new_product_assign(h, i,
             price_setter([h[i] EXCEPT !.quantity = h[i].quantity + quantity],
                          max(price_getter(h[i]).ret, price), response),
             description)

(* Product.new_product(product_data, existing_products) on heap h *)
new_product(h, data, existing, response) ==
    LET pf == py_float(data.price)
        qi == py_int(data.quantity)
        name == data.name.s
        description == data.description.s
        made == Product_init(name, description, pf.v, qi.v)
    IN  IF \E key \in RequiredKeys : data[key] = Absent THEN Raised(h, "KeyError")
        ELSE IF data.name.t # "str" THEN Raised(h, "TypeError")
        ELSE IF data.description.t # "str" THEN Raised(h, "TypeError")
        ELSE IF pf.outcome \in {"ValueError", "TypeError"} THEN Raised(h, "TypeError")
        ELSE IF pf.outcome # "ok" THEN Raised(h, pf.outcome)
        ELSE IF qi.outcome \in {"ValueError", "TypeError"} THEN Raised(h, "TypeError")
        ELSE IF qi.outcome # "ok" THEN Raised(h, qi.outcome)
        ELSE IF pf.v < 0 THEN Raised(h, "ValueError")
        ELSE IF qi.v < 0 THEN Raised(h, "ValueError")
        ELSE IF existing.given /\ Len(existing.refs) > 0
                /\ Matches(h, existing, name) # {}
        THEN new_product_merge(h, existing.refs[FirstMatch(h, existing, name)],
                               description, pf.v, qi.v, response)
        ELSE IF made.outcome # "ok" THEN Raised(h, made.outcome)
        ELSE [outcome |-> "ok", heap |-> Append(h, made.obj), ret |-> Len(h) + 1,
              merged |-> FALSE, prompted |-> FALSE, response |-> NoInput]

(* input() is answered by the environment: every answer is possible when  *)
(* the call reaches input() (the result for one answer says so in          *)
(* prompted), and no answer is read otherwise                              *)
new_product_outcomes(h, data, existing) ==
    UNION {IF r0.prompted
           THEN {new_product(h, data, existing, r) : r \in Responses}
           ELSE {r0} : r0 \in {new_product(h, data, existing, "EOF")}}

----------------------------------------------------------------------------
(* Product.__add__ and the == methods of the three classes                 *)

isinstance(o, class) ==
    IF class = "Product" THEN o.kind \in Kinds ELSE o.kind = class

(* class c is a proper subclass of class d *)
IsProperSubclass(c, d) == d = "Product" /\ c \in {"Smartphone", "LawnGrass"}

Returned(v) == [outcome |-> "ok", ret |-> v, truth |-> FALSE]
Answered(b) == [outcome |-> "ok", ret |-> 0, truth |-> b]
Failed(outcome) == [outcome |-> outcome, ret |-> 0, truth |-> FALSE]

Product_add_any_product(self, other) ==
    IF ~isinstance(other, "Product") THEN Failed("TypeError")
    ELSE Returned(price_getter(self).ret * self.quantity
                  + price_getter(other).ret * other.quantity)

Product_add_price_sum(self, other) ==
    IF self.kind # other.kind THEN Failed("TypeError")
    ELSE Returned(price_getter(self).ret * self.quantity + price_getter(other).ret)

Product_add(self, other) ==
    IF self.kind # other.kind THEN Failed("TypeError")
    ELSE IF price_getter(self).outcome # "ok" THEN Failed(price_getter(self).outcome)
    ELSE IF price_getter(other).outcome # "ok" THEN Failed(price_getter(other).outcome)
    ELSE Returned(price_getter(self).ret * self.quantity
                  + price_getter(other).ret * other.quantity)

(* left + right: the left operand's __add__ when it is a product; a        *)
(* builtin left operand does not accept a product and the product classes  *)
(* define no __radd__, so the interpreter raises TypeError                  *)
py_add(left, right) ==
    IF IsProduct(left) THEN Product_add(left, right)
    ELSE Failed("TypeError")

(* `and` evaluates left to right and stops at the first false operand, so  *)
(* the price getters run only when name and description agree              *)
Product_eq(self, other) ==
    IF ~isinstance(other, "Product") THEN Answered(FALSE)
    ELSE IF self.name # other.name THEN Answered(FALSE)
    ELSE IF self.description # other.description THEN Answered(FALSE)
    ELSE IF price_getter(self).outcome # "ok" THEN Failed(price_getter(self).outcome)
    ELSE IF price_getter(other).outcome # "ok" THEN Failed(price_getter(other).outcome)
    ELSE Answered(price_getter(self).ret = price_getter(other).ret
                  /\ self.quantity = other.quantity)

Smartphone_eq_base_fields(self, other) ==
    IF ~isinstance(other, "Smartphone") THEN Answered(FALSE)
    ELSE Product_eq(self, other)

Smartphone_eq(self, other) ==
    IF ~isinstance(other, "Smartphone") THEN Answered(FALSE)
    ELSE IF Product_eq(self, other).outcome # "ok" THEN Product_eq(self, other)
    ELSE Answered(Product_eq(self, other).truth
                  /\ self.efficiency = other.efficiency
                  /\ self.model = other.model
                  /\ self.memory = other.memory
                  /\ self.color = other.color)

LawnGrass_eq(self, other) ==
    IF ~isinstance(other, "LawnGrass") THEN Answered(FALSE)
    ELSE IF Product_eq(self, other).outcome # "ok" THEN Product_eq(self, other)
    ELSE Answered(Product_eq(self, other).truth
                  /\ self.country = other.country
                  /\ self.germination_period = other.germination_period
                  /\ self.color = other.color)

(* type(self).__eq__(self, other) *)
eq_method(self, other) ==
    IF self.kind = "Smartphone" THEN Smartphone_eq(self, other)
    ELSE IF self.kind = "LawnGrass" THEN LawnGrass_eq(self, other)
    ELSE Product_eq(self, other)

(* left == right: the interpreter tries the right operand's method first   *)
(* when its class is a proper subclass of the left operand's class and     *)
(* overrides __eq__; a builtin left operand answers NotImplemented for a   *)
(* product, and the right operand's method is tried.  The three __eq__     *)
(* never return NotImplemented.                                            *)
py_eq(left, right) ==
    IF IsProduct(left) /\ IsProduct(right) /\ IsProperSubclass(right.kind, left.kind)
    THEN eq_method(right, left)
    ELSE IF IsProduct(left) THEN eq_method(left, right)
    ELSE eq_method(right, left)

----------------------------------------------------------------------------
(* Category                                                                *)

(* list and tuple objects; their items are references into the heap *)
List(items) == [kind |-> "list", items |-> items]
Tuple(items) == [kind |-> "tuple", items |-> items]

IsSequence(o) == o.kind \in {"list", "tuple"}
IsCategory(o) == o.kind = "Category"

(* bool(o) of a constructor argument: None and an empty list or tuple are  *)
(* false                                                                   *)
truthy(o) == IsSequence(o) /\ Len(o.items) > 0

(* o[:] of a list or tuple: a new object of the same type with the same    *)
(* items                                                                   *)
slice(o) == [kind |-> o.kind, items |-> o.items]

Category_init_no_copy(h, cc, pc, name, description, products) ==
    LET own == IF truthy(h[products]) THEN h[products] ELSE List(<<>>)
        at == IF truthy(h[products]) THEN products ELSE Len(h) + 1
        h1 == IF truthy(h[products]) THEN h ELSE Append(h, own)
    IN  [outcome |-> "ok",
         heap |-> Append(h1, [kind |-> "Category", name |-> name,
                              description |-> description, products |-> at]),
         ret |-> Len(h1) + 1,
         category_count |-> cc + 1,
         product_count |-> pc + Len(own.items)]

Category_init_counts_one(h, cc, pc, name, description, products) ==
    LET own == IF truthy(h[products]) THEN slice(h[products]) ELSE List(<<>>)
    IN  [outcome |-> "ok",
         heap |-> Append(Append(h, own),
                         [kind |-> "Category", name |-> name,
                          description |-> description, products |-> Len(h) + 1]),
         ret |-> Len(h) + 2,
         category_count |-> cc + 1,
         product_count |-> pc + 1]

(* Category(name, description, products) on heap h with the counters cc,   *)
(* pc: the private list is a new object (a copy of a non-empty argument,   *)
(* an empty list otherwise), then the two class counters are increased     *)
Category_init(h, cc, pc, name, description, products) ==
    LET own == IF truthy(h[products]) THEN slice(h[products]) ELSE List(<<>>)
    IN  [outcome |-> "ok",
         heap |-> Append(Append(h, own),
                         [kind |-> "Category", name |-> name,
                          description |-> description, products |-> Len(h) + 1]),
         ret |-> Len(h) + 2,
         category_count |-> cc + 1,
         product_count |-> pc + Len(own.items)]

(* the items of the private list of category self *)
owned(h, self) == h[h[self].products].items

Unchanged(h, pc, outcome) == [outcome |-> outcome, heap |-> h, product_count |-> pc]

add_product_unchecked(h, pc, self, product) ==
    IF h[h[self].products].kind # "list" THEN Unchanged(h, pc, "AttributeError")
    ELSE [outcome |-> "ok",
          heap |-> [h EXCEPT ![h[self].products].items = Append(@, product)],
          product_count |-> pc + 1]

add_product_prepends(h, pc, self, product) ==
    IF ~isinstance(h[product], "Product") THEN Unchanged(h, pc, "TypeError")
    ELSE IF h[h[self].products].kind # "list" THEN Unchanged(h, pc, "AttributeError")
    ELSE [outcome |-> "ok",
          heap |-> [h EXCEPT ![h[self].products].items = <<product>> \o @],
          product_count |-> pc + 1]

add_product_counts_refused(h, pc, self, product) ==
    IF ~isinstance(h[product], "Product") THEN Unchanged(h, pc + 1, "TypeError")
    ELSE IF h[h[self].products].kind # "list" THEN Unchanged(h, pc + 1, "AttributeError")
    ELSE [outcome |-> "ok",
          heap |-> [h EXCEPT ![h[self].products].items = Append(@, product)],
          product_count |-> pc + 1]

(* self.add_product(product): a tuple has no append *)
add_product(h, pc, self, product) ==
    IF ~isinstance(h[product], "Product") THEN Unchanged(h, pc, "TypeError")
    ELSE IF h[h[self].products].kind # "list" THEN Unchanged(h, pc, "AttributeError")
    ELSE [outcome |-> "ok",
          heap |-> [h EXCEPT ![h[self].products].items = Append(@, product)],
          product_count |-> pc + 1]

(* the generator of __iter__ run to exhaustion from position i: it yields  *)
(* the item at each position of the private list in turn                   *)
RECURSIVE yield_from(_, _)
yield_from(items, i) ==
    IF i > Len(items) THEN <<>>
    ELSE <<items[i]>> \o yield_from(items, i + 1)

yield_skips_first(h, self) == yield_from(owned(h, self), 2)

(* list(self) *)
Category_iter(h, self) == yield_from(owned(h, self), 1)

(* sum(product.quantity for product in items) from position i with the    *)
(* partial sum acc: an item without the attribute raises AttributeError    *)
RECURSIVE sum_quantity(_, _, _, _)
sum_quantity(h, items, i, acc) ==
    IF i > Len(items) THEN [outcome |-> "ok", v |-> acc]
    ELSE IF ~IsProduct(h[items[i]]) THEN [outcome |-> "AttributeError", v |-> 0]
    ELSE sum_quantity(h, items, i + 1, acc + h[items[i]].quantity)

(* the two fixed parts of the rendered text (Cyrillic in the source) *)
QuantityLabel == ", kolichestvo produktov: "
UnitLabel == " sht."

Category_str_counts_items(h, self) ==
    [outcome |-> "ok",
     text |-> <<h[self].name, QuantityLabel, ToString(Len(owned(h, self))), UnitLabel>>]

(* str(self): the parts of the formatted text in order *)
Category_str(h, self) ==
    LET total == sum_quantity(h, owned(h, self), 1, 0)
    IN  IF total.outcome # "ok" THEN [outcome |-> total.outcome, text |-> <<>>]
        ELSE [outcome |-> "ok",
              text |-> <<h[self].name, QuantityLabel, ToString(total.v), UnitLabel>>]

----------------------------------------------------------------------------
(* load_categories_from_json                                               *)

(* Values that json.load returns.  A product-record is an item with type   *)
(* t: "object" carries the four fields of the record in f (Absent for a    *)
(* missing key), any other type is no mapping.  A category-record is an    *)
(* item with type t, the fields name and description, and the field        *)
(* products: an array of items, or absent, null, a number, or a string     *)
(* (whose items are its characters).                                       *)
NoFields == [name |-> Absent, description |-> Absent, price |-> Absent,
             quantity |-> Absent]
ProductRecord(f) == [t |-> "object", f |-> f]
NoMapping == [t |-> "num", f |-> NoFields]

Field(t, items) == [t |-> t, items |-> items]
CategoryRecord(name, description, products) ==
    [t |-> "object", name |-> name, description |-> description, products |-> products]
NoCategoryMapping ==
    [t |-> "num", name |-> Absent, description |-> Absent, products |-> Field("absent", <<>>)]

(* a source: the path does not exist (file is "missing"), open or read     *)
(* raises OSError ("unreadable"), or the file has a text; json.load of the *)
(* text raises JSONDecodeError (an empty text included), UnicodeDecodeError *)
(* (a ValueError) for bytes that are not UTF-8, RecursionError for nesting *)
(* deeper than the interpreter's recursion limit, or returns the value     *)
json_load(source) ==
    CASE source.text = "malformed" -> [outcome |-> "JSONDecodeError", value |-> Field("null", <<>>)]
      [] source.text = "empty" -> [outcome |-> "JSONDecodeError", value |-> Field("null", <<>>)]
      [] source.text = "undecodable" -> [outcome |-> "ValueError", value |-> Field("null", <<>>)]
      [] source.text = "deep" -> [outcome |-> "RecursionError", value |-> Field("null", <<>>)]
      [] source.text = "json" -> [outcome |-> "ok", value |-> source.value]

Loaded(outcome, ret, h, cc, pc) ==
    [outcome |-> outcome, ret |-> ret, heap |-> h, category_count |-> cc,
     product_count |-> pc]

(* the inner loop, lines 172-184, from item i with the products built so  *)
(* far: an item that is no mapping is skipped, a record that new_product   *)
(* rejects with KeyError, TypeError or ValueError is skipped, any other    *)
(* exception leaves the loop                                               *)
RECURSIVE load_products(_, _, _, _)
load_products(h, items, i, products) ==
    IF i > Len(items) THEN [outcome |-> "ok", heap |-> h, products |-> products]
    ELSE IF items[i].t # "object" THEN load_products(h, items, i + 1, products)
    ELSE LET r == new_product(h, items[i].f, NoExisting, "EOF")
         IN  IF r.outcome = "ok"
             THEN load_products(r.heap, items, i + 1, Append(products, r.ret))
             ELSE IF r.outcome \in {"KeyError", "TypeError", "ValueError"}
             THEN load_products(r.heap, items, i + 1, products)
             ELSE [outcome |-> r.outcome, heap |-> r.heap, products |-> products]

record_products_all_or_nothing(h, record) ==
    IF record.products.t \in {"null", "num"}
    THEN [outcome |-> "TypeError", heap |-> h, products |-> <<>>]
    ELSE LET r == load_products(h, record.products.items, 1, <<>>)
         IN  IF Len(r.products) < Len(record.products.items)
             THEN [r EXCEPT !.products = <<>>]
             ELSE r

(* lines 169-184 for one category-record with a valid header: iterating a  *)
(* products field that is null or a number raises TypeError; a missing     *)
(* field is the empty list                                                 *)
record_products(h, record) ==
    IF record.products.t \in {"null", "num"}
    THEN [outcome |-> "TypeError", heap |-> h, products |-> <<>>]
    ELSE load_products(h, record.products.items, 1, <<>>)

(* whether the checks of lines 149-167 skip the category-record *)
skips_record(record) ==
    IF record.t # "object" THEN TRUE
    ELSE IF record.name = Absent \/ record.description = Absent THEN TRUE
    ELSE IF record.name.t # "str" THEN TRUE
    ELSE record.description.t # "str"

(* the name Category of the loader's module (line 12), looked up at each   *)
(* call of line 188: the class, or what a test has put in its place        *)
(* (tests/test_data_loader.py 352-367, 548-564), which raises for the      *)
(* names it is set to refuse                                               *)
Category_class == [raises |-> "ok", names |-> {}]

Patched(raises, names) == [raises |-> raises, names |-> names]

(* Category(name=..., description=..., products=...) of lines 188-192 *)
Category_call(Category, h, cc, pc, name, description, products) ==
    IF name \in Category.names
    THEN [outcome |-> Category.raises, heap |-> h, ret |-> 0, category_count |-> cc,
          product_count |-> pc]
    ELSE Category_init(h, cc, pc, name, description, products)

(* the outer loop, lines 147-196, from record i with the categories built  *)
(* so far                                                                  *)
RECURSIVE load_categories(_, _, _, _, _, _, _)
load_categories(h, cc, pc, data, i, categories, Category) ==
    IF i > Len(data) THEN Loaded("ok", categories, h, cc, pc)
    ELSE IF skips_record(data[i])
    THEN load_categories(h, cc, pc, data, i + 1, categories, Category)
    ELSE LET made == record_products(h, data[i])
             h1 == Append(made.heap, List(made.products))
             c == Category_call(Category, h1, cc, pc, data[i].name.s,
                                data[i].description.s, Len(h1))
         IN  IF made.outcome # "ok" THEN Loaded(made.outcome, <<>>, made.heap, cc, pc)
             ELSE IF c.outcome = "ok"
             THEN load_categories(c.heap, c.category_count, c.product_count, data,
                                  i + 1, Append(categories, c.ret), Category)
             ELSE IF c.outcome \in {"TypeError", "ValueError"}
             THEN load_categories(h1, cc, pc, data, i + 1, categories, Category)
             ELSE Loaded(c.outcome, <<>>, h1, cc, pc)

load_aborts_on_bad_record(h, cc, pc, source, Category) ==
    LET parsed == json_load(source)
        done == load_categories(h, cc, pc, parsed.value.items, 1, <<>>, Category)
    IN  IF source.file = "missing" THEN Loaded("ok", <<>>, h, cc, pc)
        ELSE IF source.file = "unreadable" THEN Loaded("ok", <<>>, h, cc, pc)
        ELSE IF parsed.outcome \in {"JSONDecodeError", "ValueError"}
        THEN Loaded("ok", <<>>, h, cc, pc)
        ELSE IF parsed.outcome # "ok" THEN Loaded(parsed.outcome, <<>>, h, cc, pc)
        ELSE IF parsed.value.t # "array" THEN Loaded("ok", <<>>, h, cc, pc)
        ELSE IF Len(parsed.value.items) = 0 THEN Loaded("ok", <<>>, h, cc, pc)
        ELSE IF \E k \in 1..Len(parsed.value.items) : skips_record(parsed.value.items[k])
        THEN Loaded("ok", <<>>, h, cc, pc)
        ELSE IF done.outcome \in {"KeyError", "OSError", "ValueError", "TypeError"}
        THEN Loaded("ok", <<>>, done.heap, done.category_count, done.product_count)
        ELSE done

load_reversed(h, cc, pc, source, Category) ==
    LET parsed == json_load(source)
        n == Len(parsed.value.items)
        done == load_categories(h, cc, pc,
                                [k \in 1..n |-> parsed.value.items[n + 1 - k]], 1, <<>>,
                                Category)
    IN  IF source.file = "missing" THEN Loaded("ok", <<>>, h, cc, pc)
        ELSE IF source.file = "unreadable" THEN Loaded("ok", <<>>, h, cc, pc)
        ELSE IF parsed.outcome \in {"JSONDecodeError", "ValueError"}
        THEN Loaded("ok", <<>>, h, cc, pc)
        ELSE IF parsed.outcome # "ok" THEN Loaded(parsed.outcome, <<>>, h, cc, pc)
        ELSE IF parsed.value.t # "array" THEN Loaded("ok", <<>>, h, cc, pc)
        ELSE IF Len(parsed.value.items) = 0 THEN Loaded("ok", <<>>, h, cc, pc)
        ELSE IF done.outcome \in {"KeyError", "OSError", "ValueError", "TypeError"}
        THEN Loaded("ok", <<>>, done.heap, done.category_count, done.product_count)
        ELSE done

load_empties_on_category_error(h, cc, pc, source, Category) ==
    LET parsed == json_load(source)
        done == load_categories(h, cc, pc, parsed.value.items, 1, <<>>, Category)
    IN  IF source.file = "missing" THEN Loaded("ok", <<>>, h, cc, pc)
        ELSE IF source.file = "unreadable" THEN Loaded("ok", <<>>, h, cc, pc)
        ELSE IF parsed.outcome \in {"JSONDecodeError", "ValueError"}
        THEN Loaded("ok", <<>>, h, cc, pc)
        ELSE IF parsed.outcome # "ok" THEN Loaded(parsed.outcome, <<>>, h, cc, pc)
        ELSE IF parsed.value.t # "array" THEN Loaded("ok", <<>>, h, cc, pc)
        ELSE IF Len(parsed.value.items) = 0 THEN Loaded("ok", <<>>, h, cc, pc)
        ELSE IF done.outcome \in {"KeyError", "OSError", "ValueError", "TypeError"}
        THEN Loaded("ok", <<>>, done.heap, done.category_count, done.product_count)
        ELSE IF /\ Category.raises \in {"TypeError", "ValueError"}
                /\ \E k \in 1..Len(parsed.value.items) :
                      ~skips_record(parsed.value.items[k])
                         /\ parsed.value.items[k].name.s \in Category.names
        THEN Loaded("ok", <<>>, done.heap, done.category_count, done.product_count)
        ELSE done

(* load_categories_from_json(source): a missing path returns [] (line      *)
(* 125); OSError of open, JSONDecodeError, ValueError, TypeError and        *)
(* KeyError raised inside the try block return [] (lines 201-215), with    *)
(* the objects and counters as the block left them; any other exception    *)
(* propagates to the caller                                                *)
load_categories_from_json(h, cc, pc, source, Category) ==
    LET parsed == json_load(source)
        done == load_categories(h, cc, pc, parsed.value.items, 1, <<>>, Category)
    IN  IF source.file = "missing" THEN Loaded("ok", <<>>, h, cc, pc)
        ELSE IF source.file = "unreadable" THEN Loaded("ok", <<>>, h, cc, pc)
        ELSE IF parsed.outcome \in {"JSONDecodeError", "ValueError"}
        THEN Loaded("ok", <<>>, h, cc, pc)
        ELSE IF parsed.outcome # "ok" THEN Loaded(parsed.outcome, <<>>, h, cc, pc)
        ELSE IF parsed.value.t # "array" THEN Loaded("ok", <<>>, h, cc, pc)
        ELSE IF Len(parsed.value.items) = 0 THEN Loaded("ok", <<>>, h, cc, pc)
        ELSE IF done.outcome \in {"KeyError", "OSError", "ValueError", "TypeError"}
        THEN Loaded("ok", <<>>, done.heap, done.category_count, done.product_count)
        ELSE done

----------------------------------------------------------------------------
(* Actions                                                                 *)

(* kind(name, description, price, quantity, ...): on success the new       *)
(* instance is allocated, on failure no instance exists                    *)
Construct(kind, name, description, price, quantity, x) ==
    \E r \in {Construct_call(kind, name, description, price, quantity, x)} :
    /\ Len(heap) < Cardinality(Refs)
    /\ heap' = IF r.outcome = "ok" THEN Append(heap, r.obj) ELSE heap
    /\ last' = [NoCall EXCEPT !.op = "init", !.outcome = r.outcome,
                              !.ret = IF r.outcome = "ok" THEN Len(heap) + 1 ELSE 0]

(* heap[i].price = value *)
SetPrice(i, value) ==
    /\ i \in 1..Len(heap)
    /\ IsProduct(heap[i])
    /\ \E r \in price_setter_outcomes(heap[i], value) :
          /\ heap' = [heap EXCEPT ![i] = r.obj]
          /\ last' = [NoCall EXCEPT !.op = "set_price", !.outcome = r.outcome,
                                    !.self = i, !.prompted = r.prompted,
                                    !.value = value, !.response = r.response]

(* Product.new_product(data, existing): on success the result is a new    *)
(* instance or the merged existing one                                     *)
NewProduct(data, existing) ==
    /\ \A k \in 1..Len(existing.refs) :
          existing.refs[k] \in 1..Len(heap) /\ IsProduct(heap[existing.refs[k]])
    /\ \E r \in new_product_outcomes(heap, data, existing) :
          /\ Len(r.heap) \in 0..max(Len(heap), Cardinality(Refs))
          /\ \A i \in 1..Len(r.heap) :
                IsProduct(r.heap[i]) => r.heap[i].quantity <= MaxQty
          /\ heap' = r.heap
          /\ last' = [NoCall EXCEPT !.op = "new_product", !.outcome = r.outcome,
                                    !.ret = r.ret, !.merged = r.merged,
                                    !.prompted = r.prompted,
                                    !.response = r.response]

(* heap[i] + heap[j] *)
Add(i, j) ==
    /\ i \in 1..Len(heap) /\ j \in 1..Len(heap)
    /\ {heap[i].kind, heap[j].kind} \cap Kinds # {}
    /\ \E r \in {py_add(heap[i], heap[j])} :
          last' = [NoCall EXCEPT !.op = "add", !.outcome = r.outcome, !.self = i,
                                 !.other = j, !.ret = r.ret]
    /\ UNCHANGED heap

(* heap[i] == heap[j] *)
Eq(i, j) ==
    /\ i \in 1..Len(heap) /\ j \in 1..Len(heap)
    /\ {heap[i].kind, heap[j].kind} \cap Kinds # {}
    /\ \E r \in {py_eq(heap[i], heap[j])} :
          last' = [NoCall EXCEPT !.op = "eq", !.outcome = r.outcome, !.self = i,
                                 !.other = j, !.truth = r.truth]
    /\ UNCHANGED heap

(* Category(name, description, heap[products]): the argument is a list, a  *)
(* tuple or None                                                           *)
CategoryInit(name, description, products) ==
    /\ products \in 1..Len(heap)
    /\ heap[products].kind \in {"list", "tuple", "NoneType"}
    /\ \E r \in {Category_init(heap, category_count, product_count,
                               name, description, products)} :
          /\ r.product_count <= MaxCount
          /\ heap' = r.heap
          /\ category_count' = r.category_count
          /\ product_count' = r.product_count
          /\ last' = [NoCall EXCEPT !.op = "Category", !.outcome = r.outcome,
                                    !.ret = r.ret, !.other = products]

(* heap[self].add_product(heap[product]) *)
AddProduct(self, product) ==
    /\ self \in 1..Len(heap) /\ product \in 1..Len(heap)
    /\ IsCategory(heap[self])
    /\ \E r \in {add_product(heap, product_count, self, product)} :
          /\ r.product_count <= MaxCount
          /\ heap' = r.heap
          /\ product_count' = r.product_count
          /\ last' = [NoCall EXCEPT !.op = "add_product", !.outcome = r.outcome,
                                    !.self = self, !.other = product]
    /\ UNCHANGED category_count

(* list(heap[self]): one complete iteration *)
Iterate(self) ==
    /\ self \in 1..Len(heap)
    /\ IsCategory(heap[self])
    /\ last' = [NoCall EXCEPT !.op = "iter", !.self = self,
                              !.items = Category_iter(heap, self)]
    /\ UNCHANGED <<heap, counters>>

(* str(heap[self]) *)
Render(self) ==
    /\ self \in 1..Len(heap)
    /\ IsCategory(heap[self])
    /\ \E r \in {Category_str(heap, self)} :
          last' = [NoCall EXCEPT !.op = "str", !.outcome = r.outcome,
                                 !.self = self, !.text = r.text]
    /\ UNCHANGED <<heap, counters>>

(* heap[l].append(heap[product]) by the holder of list l *)
ListAppend(l, product) ==
    /\ l \in 1..Len(heap) /\ product \in 1..Len(heap)
    /\ heap[l].kind = "list"
    /\ Len(heap[l].items) < MaxLen
    /\ heap' = [heap EXCEPT ![l].items = Append(@, product)]
    /\ last' = [NoCall EXCEPT !.op = "append", !.self = l, !.other = product]
    /\ UNCHANGED counters

(* del heap[l][k - 1] by the holder of list l *)
ListDelete(l, k) ==
    /\ l \in 1..Len(heap)
    /\ heap[l].kind = "list"
    /\ k \in 1..Len(heap[l].items)
    /\ heap' = [heap EXCEPT ![l].items =
                    SubSeq(@, 1, k - 1) \o SubSeq(@, k + 1, Len(@))]
    /\ last' = [NoCall EXCEPT !.op = "delete", !.self = l, !.value = k]
    /\ UNCHANGED counters

(* load_categories_from_json(source) while the loader's module has         *)
(* Category under its name Category: the returned list is last.items; an  *)
(* exception that leaves the function is last.outcome                      *)
LoadWith(source, Category) ==
    \E r \in {load_categories_from_json(heap, category_count, product_count, source,
                                        Category)} :
       /\ heap' = r.heap
       /\ category_count' = r.category_count
       /\ product_count' = r.product_count
       /\ last' = [NoCall EXCEPT !.op = "load", !.outcome = r.outcome, !.items = r.ret]

(* load_categories_from_json(source) with the module as imported *)
Load(source) == LoadWith(source, Category_class)

----------------------------------------------------------------------------
(* The general specification: construction, price assignment and          *)
(* new_product in any order, each with freshly drawn arguments.            *)

(* the arguments of a constructor call, negative numbers included *)
ConstructorArgs ==
    UNION {[kind : {k}, name : Names, description : Descs, price : PriceArgs,
            quantity : QtyArgs, extra : Extras(k)] : k \in Kinds}

(* records with a text name and description and a numeric price and      *)
(* quantity, negative values included                                      *)
TypedRecords ==
    {[name |-> Str(n), description |-> Str(d), price |-> Num(p), quantity |-> Num(2 * q)] :
        n \in Names, d \in Descs, p \in PriceArgs, q \in QtyArgs}

(* None, the empty list, and the lists of distinct references to the n     *)
(* allocated objects                                                       *)
RefLists(n) ==
    {<<>>} \cup {<<i>> : i \in 1..n}
           \cup {<<i, j>> : <<i, j>> \in {x \in (1..n) \X (1..n) : x[1] # x[2]}}

ExistingLists(n) == {NoExisting} \cup {Existing(refs) : refs \in RefLists(n)}

Init ==
    /\ heap = <<>>
    /\ last = NoCall
    /\ pending = <<>>
    /\ category_count = 0
    /\ product_count = 0

Next ==
    \/ \E c \in ConstructorArgs :
          Construct(c.kind, c.name, c.description, c.price, c.quantity, c.extra)
              /\ UNCHANGED <<pending, counters>>
    \/ \E i \in Refs, v \in PriceArgs :
          SetPrice(i, v) /\ UNCHANGED <<pending, counters>>
    \/ \E data \in TypedRecords, existing \in ExistingLists(Len(heap)) :
          NewProduct(data, existing) /\ UNCHANGED <<pending, counters>>

Spec == Init /\ [][Next]_vars

----------------------------------------------------------------------------
(* One class called with fixed constructor arguments, and any sequence of  *)
(* price assignments on the instances it returned.                         *)

InitProduct ==
    /\ heap = <<>>
    /\ last = NoCall
    /\ pending \in ConstructorArgs
    /\ category_count = 0
    /\ product_count = 0

ConstructPending ==
    /\ Construct(pending.kind, pending.name, pending.description, pending.price,
                 pending.quantity, pending.extra)
    /\ UNCHANGED <<pending, counters>>

NextProduct ==
    \/ ConstructPending
    \/ \E i \in Refs, v \in PriceArgs : SetPrice(i, v) /\ UNCHANGED <<pending, counters>>

SpecProduct == InitProduct /\ [][NextProduct]_vars

----------------------------------------------------------------------------
(* new_product on one loosely typed record: without a list, with an empty  *)
(* list, and with a list that holds one existing product named "a".        *)

(* strings the model's float() and int() know: "0.5", "1", and "x" which   *)
(* is no number                                                            *)
LooseNames == {Absent, Str("a"), Str("b"), Num(2)}
LooseDescs == {Absent, Str("e"), Null}
LoosePrices ==
    {Absent, Str("x"), Str("0.5"), Null, Big} \cup {Num(h) : h \in PriceArgs}
LooseQtys ==
    {Absent, Str("x"), Str("0.5"), Str("1"), Null, Inf}
        \cup {Num(h) : h \in (-2)..(2 * MaxQty)}

LooseRecords ==
    [name : LooseNames, description : LooseDescs, price : LoosePrices,
     quantity : LooseQtys]

InitRecord ==
    /\ \/ /\ heap = <<>>
          /\ pending \in [data : LooseRecords, existing : {NoExisting, Existing(<<>>)}]
       \/ /\ heap \in {<<Product_init("a", "d", p, 0).obj>> : p \in Prices}
          /\ pending \in [data : LooseRecords, existing : {NoExisting, Existing(<<1>>)}]
    /\ last = NoCall
    /\ category_count = 0
    /\ product_count = 0

NewProductPending ==
    /\ NewProduct(pending.data, pending.existing)
    /\ UNCHANGED <<pending, counters>>

NextRecord == NewProductPending

SpecRecord == InitRecord /\ [][NextRecord]_vars

----------------------------------------------------------------------------
(* The operators + and == on two objects.                                  *)

(* name and description of the operands: at most one differs from "a","d"  *)
Texts == {<<"a", "d">>, <<"b", "d">>, <<"a", "e">>}

(* at most one of name, description and the variant's fields differs from  *)
(* the defaults                                                            *)
OperandArgs ==
    UNION {[kind : {k}, name : {t[1]}, description : {t[2]}, price : Prices,
            quantity : Qtys,
            extra : IF t = <<"a", "d">> THEN Extras(k)
                    ELSE Extras(k) \cap {SmartphoneExtra, LawnGrassExtra, NoExtra}] :
           k \in Kinds, t \in Texts}

Products ==
    {Construct_call(c.kind, c.name, c.description, c.price, c.quantity, c.extra).obj :
        c \in OperandArgs}

NonProducts == {[kind |-> "int"], [kind |-> "str"], [kind |-> "NoneType"]}

InitOps ==
    /\ heap \in {<<a, b>> : a \in Products, b \in Products \cup NonProducts}
                    \cup {<<a, b>> : a \in NonProducts, b \in Products}
    /\ last = NoCall
    /\ pending = <<>>
    /\ category_count = 0
    /\ product_count = 0

NextOps ==
    \/ \E i \in DOMAIN heap, j \in DOMAIN heap : Add(i, j) /\ UNCHANGED <<pending, counters>>
    \/ \E i \in DOMAIN heap, j \in DOMAIN heap : Eq(i, j) /\ UNCHANGED <<pending, counters>>

SpecOps == InitOps /\ [][NextOps]_vars

----------------------------------------------------------------------------
(* Categories built from one caller's sequence: constructions, add_product *)
(* with every allocated object as argument, iteration and rendering.       *)

SeqsUpTo(S, n) == UNION {[1..m -> S] : m \in 0..n}

(* two products, a builtin value, and the type of the caller's sequence:   *)
(* structurally equal products of each class, different products, and a    *)
(* Product next to a Smartphone with the same base fields                  *)
Scenes ==
    {<<Product_init("a", "d", 1, 1).obj, Product_init("a", "d", 1, 1).obj,
       [kind |-> "NoneType"], "list">>,
     <<Smartphone_init("a", "d", 1, 1, SmartphoneExtra).obj,
       Smartphone_init("a", "d", 1, 1, SmartphoneExtra).obj, [kind |-> "str"], "list">>,
     <<LawnGrass_init("a", "d", 1, 1, LawnGrassExtra).obj,
       LawnGrass_init("a", "d", 1, 1, LawnGrassExtra).obj, [kind |-> "int"], "list">>,
     <<Product_init("a", "d", 1, 1).obj, Product_init("b", "e", 2, MaxQty).obj,
       [kind |-> "dict"], "list">>,
     <<Product_init("a", "d", 1, 0).obj,
       Smartphone_init("a", "d", 1, 0, SmartphoneExtra).obj, [kind |-> "NoneType"],
       "tuple">>}

(* name and description of the categories the caller constructs, in order *)
CategoryArgs == <<(<<"A", "D">>), (<<"B", "E">>)>>

(* the caller's sequence, object 4, holds references to the objects 1..3;  *)
(* pending.products are the references the caller passes to Category: the  *)
(* sequence, and None when object 3 is None                                *)
InitCategory ==
    /\ heap \in {<<s[1], s[2], s[3], [kind |-> s[4], items |-> items]>> :
                    s \in Scenes, items \in SeqsUpTo(1..3, MaxLen)}
    /\ pending = [products |-> {i \in {3, 4} : heap[i].kind # "str"
                                               /\ heap[i].kind # "int"
                                               /\ heap[i].kind # "dict"}]
    /\ last = NoCall
    /\ category_count = 0
    /\ product_count = 0

NextCategory ==
    \/ \E products \in pending.products :
          /\ category_count < Len(CategoryArgs)
          /\ CategoryInit(CategoryArgs[category_count + 1][1],
                          CategoryArgs[category_count + 1][2], products)
          /\ UNCHANGED pending
    \/ \E self \in DOMAIN heap : \E product \in 1..4 \cup {self} :
          AddProduct(self, product) /\ UNCHANGED pending
    \/ \E self \in DOMAIN heap : Iterate(self) /\ UNCHANGED pending
    \/ \E self \in DOMAIN heap : Render(self) /\ UNCHANGED pending

SpecCategory == InitCategory /\ [][NextCategory]_vars

(* Constructions and add_product calls only, on the same objects. *)
NextCounters ==
    \/ \E products \in pending.products :
          /\ category_count < Len(CategoryArgs)
          /\ CategoryInit(CategoryArgs[category_count + 1][1],
                          CategoryArgs[category_count + 1][2], products)
          /\ UNCHANGED pending
    \/ \E self \in DOMAIN heap : \E product \in 1..4 \cup {self} :
          AddProduct(self, product) /\ UNCHANGED pending

SpecCounters == InitCategory /\ [][NextCounters]_vars

----------------------------------------------------------------------------
(* The caller keeps the sequence it passed to Category and changes it      *)
(* afterwards.                                                             *)

NextCopy ==
    \/ \E products \in pending.products :
          /\ category_count < Len(CategoryArgs)
          /\ CategoryInit(CategoryArgs[category_count + 1][1],
                          CategoryArgs[category_count + 1][2], products)
          /\ UNCHANGED pending
    \/ \E product \in 1..3 : ListAppend(4, product) /\ UNCHANGED pending
    \/ \E k \in 1..MaxLen : ListDelete(4, k) /\ UNCHANGED pending
    \/ \E self \in DOMAIN heap : Iterate(self) /\ UNCHANGED pending

SpecCopy == InitCategory /\ [][NextCopy]_vars

----------------------------------------------------------------------------
(* One category, its rendering, and new_product called with the products   *)
(* of the category as existing_products and a record fixed at the start.   *)

StockRecords ==
    {[name |-> Str(n), description |-> Str("d"), price |-> Num(1), quantity |-> Num(2 * q)] :
        n \in Names, q \in 0..1}

InitStock ==
    /\ heap \in {<<s[1], s[2], s[3], [kind |-> s[4], items |-> items]>> :
                    s \in Scenes, items \in SeqsUpTo(1..3, MaxLen)}
    /\ pending \in [products : {{4}}, data : StockRecords]
    /\ last = NoCall
    /\ category_count = 0
    /\ product_count = 0

(* Product.new_product(pending.data, list(heap[self])) *)
MergeOwned(self) ==
    /\ self \in 1..Len(heap)
    /\ IsCategory(heap[self])
    /\ NewProduct(pending.data, Existing(Category_iter(heap, self)))
    /\ UNCHANGED <<pending, counters>>

NextStock ==
    \/ \E products \in pending.products :
          /\ category_count = 0
          /\ CategoryInit(CategoryArgs[1][1], CategoryArgs[1][2], products)
          /\ UNCHANGED pending
    \/ \E self \in DOMAIN heap : \E product \in 1..3 :
          AddProduct(self, product) /\ UNCHANGED pending
    \/ \E self \in DOMAIN heap : Render(self) /\ UNCHANGED pending
    \/ \E self \in DOMAIN heap : MergeOwned(self)

SpecStock == InitStock /\ [][NextStock]_vars

----------------------------------------------------------------------------
(* The loader called once on one source, in a process that has or has not  *)
(* constructed a category before.                                          *)

Text(text, value) == [file |-> "text", text |-> text, value |-> value]

(* product-records: three that new_product accepts (two of them with the   *)
(* same name), and one for each way of being refused                       *)
GoodProductRecords ==
    {ProductRecord([name |-> Str("a"), description |-> Str("d"), price |-> Num(1),
                    quantity |-> Num(2)]),
     ProductRecord([name |-> Str("b"), description |-> Str("e"), price |-> Num(0),
                    quantity |-> Num(0)]),
     ProductRecord([name |-> Str("a"), description |-> Str("e"), price |-> Num(2),
                    quantity |-> Num(2 * MaxQty)])}

BadProductRecords ==
    {NoMapping,
     ProductRecord([name |-> Str("a"), description |-> Absent, price |-> Num(1),
                    quantity |-> Num(2)]),
     ProductRecord([name |-> Str("a"), description |-> Str("d"), price |-> Num(-1),
                    quantity |-> Num(2)]),
     ProductRecord([name |-> Str("a"), description |-> Str("d"), price |-> Num(1),
                    quantity |-> Str("x")]),
     ProductRecord([name |-> Str("a"), description |-> Str("d"), price |-> Num(1),
                    quantity |-> Inf])}

ProductsFields ==
    {Field("absent", <<>>), Field("null", <<>>), Field("num", <<>>),
     Field("str", <<NoMapping, NoMapping>>)}
        \cup {Field("array", items) :
                 items \in SeqsUpTo(GoodProductRecords \cup BadProductRecords, MaxLen)}

(* category-records: plain ones, ones with a valid header and any products *)
(* field, and ones that the header checks refuse                           *)
PlainCategoryRecords ==
    {CategoryRecord(Str("P"), Str("D"), Field("absent", <<>>)),
     CategoryRecord(Str("Q"), Str("E"),
                    Field("array", <<ProductRecord([name |-> Str("a"),
                                                    description |-> Str("d"),
                                                    price |-> Num(1),
                                                    quantity |-> Num(2)])>>))}

BadCategoryRecords ==
    {NoCategoryMapping,
     CategoryRecord(Absent, Str("D"), Field("absent", <<>>)),
     CategoryRecord(Str("A"), Absent, Field("array", <<NoMapping>>)),
     CategoryRecord(Num(2), Str("D"), Field("absent", <<>>)),
     CategoryRecord(Str("A"), Null, Field("absent", <<>>)),
     CategoryRecord(Absent, Absent, Field("null", <<>>))}

CategoryRecords ==
    BadCategoryRecords
        \cup {CategoryRecord(Str("A"), Str("D"), f) : f \in ProductsFields}

(* the sources without category-records *)
EmptySources ==
    {[file |-> "missing", text |-> "empty", value |-> Field("null", <<>>)],
     [file |-> "unreadable", text |-> "empty", value |-> Field("null", <<>>)]}
        \cup {Text(t, Field("null", <<>>)) : t \in {"malformed", "empty", "undecodable", "deep"}}
        \cup {Text("json", Field(t, <<>>)) : t \in {"object", "num", "null", "str", "array"}}

(* the source is one without category-records, or an array of              *)
(* 1..MaxRecords category-records of which at most one is not plain        *)
InitLoader ==
    /\ \/ pending \in EmptySources
       \/ \E n \in 1..MaxRecords :
             \E at \in 1..n, r \in CategoryRecords, plain \in [1..n -> PlainCategoryRecords] :
                pending = Text("json", Field("array",
                                             [k \in 1..n |-> IF k = at THEN r ELSE plain[k]]))
    /\ last = NoCall
    /\ \/ /\ heap = <<>>
          /\ category_count = 0
          /\ product_count = 0
       \/ \E r \in {Category_init(<<Product_init("a", "d", 1, 1).obj, List(<<1>>)>>,
                                   0, 0, "Z", "D", 2)} :
             /\ heap = r.heap
             /\ category_count = r.category_count
             /\ product_count = r.product_count

NextLoader == last.op # "load" /\ Load(pending) /\ UNCHANGED pending

SpecLoader == InitLoader /\ [][NextLoader]_vars

----------------------------------------------------------------------------
(* The loader called once on an array of well-formed category-records      *)
(* while the name Category of its module is the class or a replacement     *)
(* that raises for some of the names.                                      *)

PatchedRecords ==
    PlainCategoryRecords
        \cup {CategoryRecord(Str("A"), Str("D"),
                             Field("array",
                                   <<ProductRecord([name |-> Str("a"), description |-> Str("d"),
                                                    price |-> Num(1), quantity |-> Num(2)]),
                                     ProductRecord([name |-> Str("b"), description |-> Str("e"),
                                                    price |-> Num(2), quantity |-> Num(0)])>>))}

Replacements ==
    {Category_class}
        \cup {Patched(e, names) : e \in {"TypeError", "ValueError", "RuntimeError"},
                                  names \in SUBSET {"P", "Q", "A"} \ {{}}}

InitPatched ==
    /\ \E n \in 1..MaxRecords :
          \E data \in [1..n -> PatchedRecords], Category \in Replacements :
             pending = [source |-> Text("json", Field("array", data)),
                        Category |-> Category]
    /\ last = NoCall
    /\ \/ /\ heap = <<>>
          /\ category_count = 0
          /\ product_count = 0
       \/ \E r \in {Category_init(<<Product_init("a", "d", 1, 1).obj, List(<<1>>)>>,
                                   0, 0, "Z", "D", 2)} :
             /\ heap = r.heap
             /\ category_count = r.category_count
             /\ product_count = r.product_count

NextPatched ==
    last.op # "load" /\ LoadWith(pending.source, pending.Category) /\ UNCHANGED pending

SpecPatched == InitPatched /\ [][NextPatched]_vars

----------------------------------------------------------------------------
(* new_product called repeatedly with one valid record and one list of     *)
(* existing products that may hold several products of one name and the    *)
(* same product more than once.                                            *)

MergeRecords ==
    {[name |-> Str(n), description |-> Str("e"), price |-> Num(p), quantity |-> Num(2 * q)] :
        n \in Names, p \in Prices, q \in 0..1}

InitMerge ==
    /\ heap \in {<<Product_init(n1, "d", p1, 0).obj, Product_init(n2, "d", p2, 0).obj>> :
                    n1 \in Names, n2 \in Names, p1 \in Prices, p2 \in Prices}
    /\ pending \in [data : MergeRecords,
                    existing : {Existing(refs) : refs \in SeqsUpTo(1..2, MaxLen)}]
    /\ last = NoCall
    /\ category_count = 0
    /\ product_count = 0

NextMerge == NewProductPending

SpecMerge == InitMerge /\ [][NextMerge]_vars

----------------------------------------------------------------------------
(* Properties                                                              *)

C2_ConstructReturnsArguments ==
    (last.op = "init" /\ pending.kind = "Product"
        /\ pending.price >= 0 /\ pending.quantity >= 0)
    => /\ last.outcome = "ok"
       /\ last.ret \in 1..Len(heap)
       /\ heap[last.ret].kind = "Product"
       /\ heap[last.ret].name = pending.name
       /\ heap[last.ret].description = pending.description
       /\ price_getter(heap[last.ret]) = [outcome |-> "ok", ret |-> pending.price]
       /\ heap[last.ret].quantity = pending.quantity

C2_Witness ==
    /\ last.op = "init" /\ last.outcome = "ok"
    /\ pending.kind = "Product" /\ pending.price = 0 /\ pending.quantity = 0
    /\ heap[last.ret].price = 0 /\ heap[last.ret].quantity = 0

C5_PositivePriceAssignment ==
    [][(last'.op = "set_price" /\ last'.value > 0)
       => /\ last'.outcome = "ok"
          /\ heap' = [heap EXCEPT ![last'.self].price = heap'[last'.self].price]
          /\ last'.value >= heap[last'.self].price
             => (~last'.prompted /\ heap'[last'.self].price = last'.value)
          /\ last'.value < heap[last'.self].price
             => /\ last'.prompted
                /\ last'.response \in Responses
                /\ last'.response \in {"y", "Y"}
                   => heap'[last'.self].price = last'.value
                /\ last'.response \notin {"y", "Y"}
                   => heap'[last'.self].price = heap[last'.self].price]_vars

(* a decrease confirmed with "Y" *)
C5_Witness ==
    /\ last.op = "set_price" /\ last.outcome = "ok"
    /\ last.prompted /\ last.response = "Y"
    /\ heap[last.self].price = last.value

(* a record of the documented shape with nonnegative values: text name and *)
(* description, a numeric price >= 0, an integer quantity >= 0             *)
IsValidRecord(data) ==
    /\ data.name.t = "str" /\ data.description.t = "str"
    /\ data.price.t = "num" /\ data.price.h >= 0
    /\ data.quantity.t = "num" /\ data.quantity.h >= 0 /\ data.quantity.h % 2 = 0

(* C6: new_product with a valid record (price 0 included) whose name is    *)
(* the name of a product of existing_products succeeds and returns that    *)
(* instance with quantity = old quantity + record quantity, price =        *)
(* max(old price, record price) and the record's description.              *)
C6_MergeSucceeds ==
    [][(/\ last'.op = "new_product"
        /\ IsValidRecord(pending.data)
        /\ pending.existing = Existing(<<1>>)
        /\ heap[1].name = pending.data.name.s)
       => /\ last'.outcome = "ok"
          /\ last'.merged /\ last'.ret = 1
          /\ Len(heap') = Len(heap)
          /\ heap'[1].quantity = heap[1].quantity + pending.data.quantity.h \div 2
          /\ heap'[1].price = max(heap[1].price, pending.data.price.h)
          /\ heap'[1].description = pending.data.description.s]_vars

(* values that the claim counts as numbers, and as integers *)
IsNumberLike(v) == v.t = "num" \/ (v.t = "str" /\ v.s \in {"0.5", "1"})
IsIntegerLike(v) == v.t = "num" \/ (v.t = "str" /\ v.s = "1")

(* C7: new_product raises KeyError when a required key is absent;          *)
(* otherwise TypeError when name or description is not text or price or    *)
(* quantity cannot be coerced to a number / an integer; otherwise          *)
(* ValueError when the coerced price or quantity is negative.              *)
C7_ErrorClassesInOrder ==
    last.op = "new_product" =>
        IF \E key \in RequiredKeys : pending.data[key] = Absent
        THEN last.outcome = "KeyError"
        ELSE IF \/ pending.data.name.t # "str"
                \/ pending.data.description.t # "str"
                \/ ~IsNumberLike(pending.data.price)
                \/ ~IsIntegerLike(pending.data.quantity)
        THEN last.outcome = "TypeError"
        ELSE IF \/ py_float(pending.data.price).v < 0
                \/ py_int(pending.data.quantity).v < 0
        THEN last.outcome = "ValueError"
        ELSE TRUE

(* the operands of the latest + or == *)
Left == heap[last.self]
Right == heap[last.other]

(* C8: for two products of the same class, p1 + p2 is                      *)
(* p1.price * p1.quantity + p2.price * p2.quantity, equals p2 + p1, and    *)
(* leaves both operands as they were.                                      *)
C8_AddSameClass ==
    [][(last'.op = "add" /\ IsProduct(heap[last'.self])
        /\ heap[last'.self].kind = heap[last'.other].kind)
       => /\ last'.outcome = "ok"
          /\ last'.ret = heap[last'.self].price * heap[last'.self].quantity
                         + heap[last'.other].price * heap[last'.other].quantity
          /\ py_add(heap[last'.other], heap[last'.self])
                = [outcome |-> "ok", ret |-> last'.ret, truth |-> FALSE]
          /\ heap' = heap]_vars

C8_Witness ==
    /\ last.op = "add" /\ last.outcome = "ok"
    /\ last.self = 1 /\ last.other = 2
    /\ Left.kind = "Smartphone" /\ Right.kind = "Smartphone"
    /\ Left.price * Left.quantity # Right.price * Right.quantity
    /\ last.ret > 0

(* C9: + on operands of different classes raises TypeError in both operand *)
(* orders: two different variants, a variant and a base Product, a product *)
(* and a value that is no product.                                         *)
C9_AddDifferentClasses ==
    (last.op = "add" /\ Left.kind # Right.kind) => last.outcome = "TypeError"

C9_Witness ==
    /\ last.op = "add" /\ last.outcome = "TypeError"
    /\ Left.kind = "Product" /\ Right.kind = "Smartphone"
    /\ py_add(Right, Left).outcome = "TypeError"

Categories(h) == {c \in 1..Len(h) : IsCategory(h[c])}

(* C11: a step that constructs a Category from a list or tuple of n items  *)
(* returns normally a new category whose owned sequence is exactly those   *)
(* n items in the given order, and it increases category_count by 1 and    *)
(* product_count by n (by 0 for an empty sequence).                        *)
C11_ConstructHoldsSequence ==
    [][(last'.op = "Category" /\ IsSequence(heap[last'.other])) =>
          /\ last'.outcome = "ok"
          /\ last'.ret \in Categories(heap') \ Categories(heap)
          /\ owned(heap', last'.ret) = heap[last'.other].items
          /\ category_count' = category_count + 1
          /\ product_count' = product_count + Len(heap[last'.other].items)]_vars

(* a second category was constructed from a sequence of two products *)
C11_Witness ==
    /\ last.op = "Category"
    /\ category_count = 2
    /\ product_count >= 2
    /\ Len(owned(heap, last.ret)) = 2
    /\ \A k \in 1..2 : IsProduct(heap[owned(heap, last.ret)[k]])

(* C12: a step that appends to or deletes from the caller's list after a   *)
(* category was constructed from it changes no category's owned sequence   *)
(* and leaves product_count as it was.                                     *)
C12_CallerMutationIsolated ==
    [][(last'.op \in {"append", "delete"}) =>
          /\ \A c \in Categories(heap) : owned(heap', c) = owned(heap, c)
          /\ Categories(heap') = Categories(heap)
          /\ product_count' = product_count]_vars

(* the caller's list was lengthened after a category had copied it *)
C12_Witness ==
    /\ last.op = "append"
    /\ \E c \in Categories(heap) :
          /\ Len(owned(heap, c)) > 0
          /\ Len(heap[4].items) > Len(owned(heap, c))
          /\ SubSeq(heap[4].items, 1, Len(owned(heap, c))) = owned(heap, c)

(* C13: add_product with an argument that is no Product, Smartphone or     *)
(* LawnGrass (a string, number, mapping, None, a list or tuple, a          *)
(* category) raises TypeError and changes neither the heap (so no owned    *)
(* sequence) nor product_count nor category_count.                         *)
C13_AddRejectsNonProduct ==
    [][(last'.op = "add_product" /\ ~IsProduct(heap[last'.other])) =>
          /\ last'.outcome = "TypeError"
          /\ heap' = heap
          /\ product_count' = product_count
          /\ category_count' = category_count]_vars

(* a list was refused by a category that owns products *)
C13_Witness ==
    /\ last.op = "add_product"
    /\ last.outcome = "TypeError"
    /\ heap[last.other].kind = "list"
    /\ Len(owned(heap, last.self)) > 0

(* C14: add_product with a product that is == to one the category already  *)
(* owns raises ValueError and changes neither the owned sequence nor        *)
(* product_count.                                                           *)
C14_AddRejectsDuplicate ==
    [][(/\ last'.op = "add_product"
        /\ IsProduct(heap[last'.other])
        /\ \E k \in 1..Len(owned(heap, last'.self)) :
              /\ IsProduct(heap[owned(heap, last'.self)[k]])
              /\ py_eq(heap[owned(heap, last'.self)[k]], heap[last'.other]).truth) =>
          /\ last'.outcome = "ValueError"
          /\ owned(heap', last'.self) = owned(heap, last'.self)
          /\ product_count' = product_count]_vars

(* C15: constructing a Category from a sequence with an item that is no    *)
(* product raises TypeError and changes neither counter.                   *)
C15_ConstructRejectsNonProduct ==
    [][(/\ last'.op = "Category"
        /\ IsSequence(heap[last'.other])
        /\ \E k \in 1..Len(heap[last'.other].items) :
              ~IsProduct(heap[heap[last'.other].items[k]])) =>
          /\ last'.outcome = "TypeError"
          /\ category_count' = category_count
          /\ product_count' = product_count]_vars

(* C16: a complete iteration of a category yields the owned sequence, one  *)
(* item per position, and changes neither the heap nor the counters; the   *)
(* sequence an iteration yields is the constructor's sequence right after  *)
(* the construction, grows by the added product at its end on a successful *)
(* add_product, and is the same before and after every other step (so two  *)
(* iterations with no add between them yield the same sequence).           *)
C16_IterationInInsertionOrder ==
    [][/\ (last'.op = "iter") =>
             /\ last'.items = owned(heap, last'.self)
             /\ heap' = heap
             /\ category_count' = category_count
             /\ product_count' = product_count
       /\ (last'.op = "Category") =>
             Category_iter(heap', last'.ret) =
                 IF IsSequence(heap[last'.other]) THEN heap[last'.other].items ELSE <<>>
       /\ \A c \in Categories(heap) :
             Category_iter(heap', c) =
                 IF last'.op = "add_product" /\ last'.outcome = "ok" /\ last'.self = c
                 THEN Append(Category_iter(heap, c), last'.other)
                 ELSE Category_iter(heap, c)]_vars

(* an iteration yielded the items of the caller's sequence followed by at  *)
(* least one added product                                                 *)
C16_Witness ==
    /\ last.op = "iter"
    /\ Len(heap[4].items) > 0
    /\ Len(last.items) > Len(heap[4].items)
    /\ SubSeq(last.items, 1, Len(heap[4].items)) = heap[4].items

(* the sum of the quantities of the products among the items from          *)
(* position i                                                              *)
RECURSIVE TotalQuantity(_, _, _)
TotalQuantity(h, items, i) ==
    IF i > Len(items) THEN 0
    ELSE (IF IsProduct(h[items[i]]) THEN h[items[i]].quantity ELSE 0)
             + TotalQuantity(h, items, i + 1)

(* C17: rendering a category always returns the text with the sum of the   *)
(* quantities of the products it owns (0 when it owns none); a successful  *)
(* add_product(p) raises that sum by p.quantity; a new_product merge into  *)
(* a product the category owns raises it by the quantity of the record.    *)
C17_RenderReportsTotal ==
    [][/\ (last'.op = "str") =>
             /\ last'.outcome = "ok"
             /\ last'.text = <<heap[last'.self].name, QuantityLabel,
                               ToString(TotalQuantity(heap, owned(heap, last'.self), 1)),
                               UnitLabel>>
       /\ (last'.op = "add_product" /\ last'.outcome = "ok") =>
             TotalQuantity(heap', owned(heap', last'.self), 1) =
                 TotalQuantity(heap, owned(heap, last'.self), 1)
                     + heap[last'.other].quantity
       /\ (last'.op = "new_product" /\ last'.merged) =>
             \A c \in Categories(heap) :
                 (\E k \in 1..Len(owned(heap, c)) : owned(heap, c)[k] = last'.ret) =>
                     TotalQuantity(heap', owned(heap', c), 1) =
                         TotalQuantity(heap, owned(heap, c), 1)
                             + py_int(pending.data.quantity).v]_vars

(* a product-record that is a mapping with a text name and description, a  *)
(* number >= 0 as price and a whole number >= 0 as quantity                *)
WellFormedProduct(item) ==
    /\ item.t = "object"
    /\ item.f.name.t = "str" /\ item.f.description.t = "str"
    /\ item.f.price.t = "num" /\ item.f.price.h >= 0
    /\ item.f.quantity.t = "num" /\ item.f.quantity.h >= 0 /\ item.f.quantity.h % 2 = 0

(* a category-record that is a mapping with a text name and description    *)
(* and no products field or an array of well-formed product-records with   *)
(* pairwise distinct names                                                 *)
WellFormedCategory(record) ==
    /\ record.t = "object"
    /\ record.name.t = "str" /\ record.description.t = "str"
    /\ record.products.t \in {"absent", "array"}
    /\ \A k \in 1..Len(record.products.items) :
          /\ WellFormedProduct(record.products.items[k])
          /\ \A j \in 1..Len(record.products.items) :
                j # k => record.products.items[j].f.name # record.products.items[k].f.name

(* category c of heap h carries the name and description of the record and *)
(* one product per product-record, in order, with the record's values      *)
BuiltFrom(h, c, record) ==
    /\ IsCategory(h[c])
    /\ h[c].name = record.name.s
    /\ h[c].description = record.description.s
    /\ Len(owned(h, c)) = Len(record.products.items)
    /\ \A k \in 1..Len(record.products.items) :
          /\ IsProduct(h[owned(h, c)[k]])
          /\ h[owned(h, c)[k]].name = record.products.items[k].f.name.s
          /\ h[owned(h, c)[k]].description = record.products.items[k].f.description.s
          /\ h[owned(h, c)[k]].price = record.products.items[k].f.price.h
          /\ 2 * h[owned(h, c)[k]].quantity = record.products.items[k].f.quantity.h

(* C18: after loading a source that is an array of well-formed             *)
(* category-records the loader has returned one category per record, in    *)
(* source order, each with the record's name and description and one       *)
(* product per product-record in source order (none when the record has no *)
(* products field).                                                        *)
C18_WellFormedSourceLoads ==
    (/\ last.op = "load"
     /\ pending.file = "text" /\ pending.text = "json" /\ pending.value.t = "array"
     /\ \A k \in 1..Len(pending.value.items) : WellFormedCategory(pending.value.items[k])) =>
        /\ last.outcome = "ok"
        /\ Len(last.items) = Len(pending.value.items)
        /\ \A k \in 1..Len(pending.value.items) :
              BuiltFrom(heap, last.items[k], pending.value.items[k])

(* three categories were returned, one with two products and one built     *)
(* from a record without a products field                                  *)
C18_Witness ==
    /\ last.op = "load"
    /\ pending.value.t = "array"
    /\ \A k \in 1..Len(pending.value.items) : WellFormedCategory(pending.value.items[k])
    /\ Len(last.items) = 3
    /\ \E k \in 1..3 : Len(owned(heap, last.items[k])) = 2
    /\ \E k \in 1..3 : pending.value.items[k].products.t = "absent"
                       /\ Len(owned(heap, last.items[k])) = 0

(* C19: a load of a source whose path does not exist, that cannot be read, *)
(* whose text json.load does not parse, or whose value is no array or is   *)
(* the empty array, returns the empty list without raising, constructs no  *)
(* category and leaves both counters unchanged.                            *)
C19_UnusableSourceLoadsEmpty ==
    [][(/\ last'.op = "load"
        /\ \/ pending.file \in {"missing", "unreadable"}
           \/ json_load(pending).outcome # "ok"
           \/ pending.value.t # "array"
           \/ Len(pending.value.items) = 0) =>
          /\ last'.outcome = "ok"
          /\ last'.items = <<>>
          /\ Categories(heap') = Categories(heap)
          /\ category_count' = category_count
          /\ product_count' = product_count]_vars

(* the header checks of the claim: no mapping, name or description         *)
(* missing, name or description no text                                    *)
BadHeader(record) ==
    \/ record.t # "object"
    \/ record.name = Absent \/ record.description = Absent
    \/ record.name.t # "str" \/ record.description.t # "str"

(* the records of data from position i that have a good header *)
RECURSIVE GoodHeaders(_, _)
GoodHeaders(data, i) ==
    IF i > Len(data) THEN <<>>
    ELSE (IF BadHeader(data[i]) THEN <<>> ELSE <<data[i]>>) \o GoodHeaders(data, i + 1)

(* C20: after loading an array in which some category-records have a bad   *)
(* header and all the others are well-formed, the loader has returned       *)
(* exactly the categories of the others, before and after the bad ones, in  *)
(* source order.                                                            *)
C20_BadCategoryRecordSkipped ==
    (/\ last.op = "load"
     /\ pending.file = "text" /\ pending.text = "json" /\ pending.value.t = "array"
     /\ \E k \in 1..Len(pending.value.items) : BadHeader(pending.value.items[k])
     /\ \A k \in 1..Len(pending.value.items) :
           BadHeader(pending.value.items[k]) \/ WellFormedCategory(pending.value.items[k])) =>
        /\ last.outcome = "ok"
        /\ Len(last.items) = Len(GoodHeaders(pending.value.items, 1))
        /\ \A k \in 1..Len(last.items) :
              BuiltFrom(heap, last.items[k], GoodHeaders(pending.value.items, 1)[k])

(* the record in the middle was skipped, the one before it and the one      *)
(* after it were returned                                                   *)
C20_Witness ==
    /\ last.op = "load"
    /\ pending.value.t = "array"
    /\ Len(pending.value.items) = 3
    /\ BadHeader(pending.value.items[2])
    /\ Len(last.items) = 2
    /\ heap[last.items[1]].name = pending.value.items[1].name.s
    /\ heap[last.items[2]].name = pending.value.items[3].name.s

(* a product-record that the loader's inner loop skips for a reason the    *)
(* claim lists: no mapping, a required field missing, a price or quantity  *)
(* of the wrong type, a negative price or quantity                         *)
SkippedProduct(item) ==
    \/ item.t # "object"
    \/ \E key \in RequiredKeys : item.f[key] = Absent
    \/ item.f.price.t = "null" \/ item.f.quantity.t = "null"
    \/ item.f.price.t = "str" /\ item.f.price.s \notin {"0.5", "1"}
    \/ item.f.quantity.t = "str" /\ item.f.quantity.s # "1"
    \/ item.f.price.t = "num" /\ item.f.price.h < 0
    \/ item.f.quantity.t = "num" /\ item.f.quantity.h < 0

(* the well-formed product-records of items from position i, in order *)
RECURSIVE ValidProducts(_, _)
ValidProducts(items, i) ==
    IF i > Len(items) THEN <<>>
    ELSE (IF WellFormedProduct(items[i]) THEN <<items[i]>> ELSE <<>>)
             \o ValidProducts(items, i + 1)

(* the category-record with the skipped product-records taken out *)
WithoutSkipped(record) ==
    [record EXCEPT !.products.items = ValidProducts(record.products.items, 1)]

(* every record has a good header and no or an array products field whose  *)
(* items are well-formed or skipped for a listed reason                    *)
SkippableOnly(data) ==
    \A k \in 1..Len(data) :
       /\ ~BadHeader(data[k])
       /\ data[k].products.t \in {"absent", "array"}
       /\ \A j \in 1..Len(data[k].products.items) :
             \/ WellFormedProduct(data[k].products.items[j])
             \/ SkippedProduct(data[k].products.items[j])

RECURSIVE Constructed(_, _, _)
Constructed(data, i, Category) ==
    IF i > Len(data) THEN <<>>
    ELSE (IF data[i].name.s \in Category.names THEN <<>> ELSE <<data[i]>>)
             \o Constructed(data, i + 1, Category)

(* C26: after loading an array of well-formed category-records while the   *)
(* construction of a Category raises TypeError or ValueError for some of   *)
(* them, the loader has not raised and has returned exactly the categories *)
(* of the other records, in source order.                                  *)
C26_FailedCategorySkipped ==
    (/\ last.op = "load"
     /\ pending.Category.raises \in {"TypeError", "ValueError"}
     /\ \E k \in 1..Len(pending.source.value.items) :
           pending.source.value.items[k].name.s \in pending.Category.names) =>
        /\ last.outcome = "ok"
        /\ Len(last.items)
              = Len(Constructed(pending.source.value.items, 1, pending.Category))
        /\ \A k \in 1..Len(last.items) :
              BuiltFrom(heap, last.items[k],
                        Constructed(pending.source.value.items, 1, pending.Category)[k])

(* the construction for the second of three records raised, the categories *)
(* of the first and the third were returned                                *)
C26_Witness ==
    /\ last.op = "load"
    /\ pending.Category.raises \in {"TypeError", "ValueError"}
    /\ Len(pending.source.value.items) = 3
    /\ pending.source.value.items[2].name.s \in pending.Category.names
    /\ Len(last.items) = 2
    /\ heap[last.items[1]].name = pending.source.value.items[1].name.s
    /\ heap[last.items[2]].name = pending.source.value.items[3].name.s

(* C22: a load never ends with an exception leaving the loader, whatever   *)
(* error arises while the source is read or processed.                     *)
C22_LoaderNeverRaises ==
    last.op = "load" => last.outcome = "ok"

(* C23: after a load, no returned category holds two products with the    *)
(* same name: product-records with one name in one category-record have    *)
(* been merged into a single product.                                      *)
C23_LoaderMergesSameName ==
    (last.op = "load" /\ last.outcome = "ok") =>
        \A k \in 1..Len(last.items) :
           \A i, j \in 1..Len(owned(heap, last.items[k])) :
              i # j => heap[owned(heap, last.items[k])[i]].name
                          # heap[owned(heap, last.items[k])[j]].name

(* a category-record with a good header whose products field is present    *)
(* and is no array                                                         *)
WrongProductsType(record) ==
    ~BadHeader(record) /\ record.products.t \notin {"absent", "array"}

(* C25: after loading an array in which some category-records have a       *)
(* products field of the wrong type and all the others are well-formed,    *)
(* the loader has not raised and has returned the category of every        *)
(* well-formed record, those before the wrong ones included.               *)
C25_WrongProductsTypeIsLocal ==
    (/\ last.op = "load"
     /\ pending.file = "text" /\ pending.text = "json" /\ pending.value.t = "array"
     /\ \E k \in 1..Len(pending.value.items) : WrongProductsType(pending.value.items[k])
     /\ \A k \in 1..Len(pending.value.items) :
           WrongProductsType(pending.value.items[k])
              \/ WellFormedCategory(pending.value.items[k])) =>
        /\ last.outcome = "ok"
        /\ \A k \in 1..Len(pending.value.items) :
              WellFormedCategory(pending.value.items[k]) =>
                 \E j \in 1..Len(last.items) :
                    BuiltFrom(heap, last.items[j], pending.value.items[k])

(* the products held by the categories of cats from position i *)
RECURSIVE OwnedTotal(_, _, _)
OwnedTotal(h, cats, i) ==
    IF i > Len(cats) THEN 0
    ELSE Len(owned(h, cats[i])) + OwnedTotal(h, cats, i + 1)

(* C29: a load that returns has increased the category counter by the      *)
(* number of categories in the returned list and the product counter by    *)
(* the number of products those categories hold.                           *)
C29_CountersMatchReturned ==
    [][(last'.op = "load" /\ last'.outcome = "ok") =>
          /\ category_count' = category_count + Len(last'.items)
          /\ product_count' = product_count + OwnedTotal(heap', last'.items, 1)]_vars

RECURSIVE OwnedLengths(_, _)
OwnedLengths(h, i) ==
    IF i > Len(h) THEN 0
    ELSE (IF IsCategory(h[i]) THEN Len(owned(h, i)) ELSE 0) + OwnedLengths(h, i + 1)

(* C27: after every construction and every add_product call, accepted or   *)
(* refused, the category counter is the number of categories constructed   *)
(* and the product counter is the sum of the lengths of their owned        *)
(* sequences, and neither counter has decreased.                           *)
C27_CountersTrackCategories ==
    [][/\ category_count' = Cardinality(Categories(heap'))
       /\ product_count' = OwnedLengths(heap', 1)
       /\ category_count' >= category_count
       /\ product_count' >= product_count]_vars

(* two categories exist, products were counted, and the last call was an   *)
(* add_product that was refused                                            *)
C27_Witness ==
    /\ last.op = "add_product" /\ last.outcome # "ok"
    /\ category_count = 2
    /\ product_count = MaxCount
    /\ \A c \in Categories(heap) : Len(owned(heap, c)) >= 1

(* C28: a new_product call that fails with KeyError, TypeError or          *)
(* ValueError leaves the quantity, price and description of every product  *)
(* of existing_products as they were before the call.                      *)
C28_FailedCallChangesNothing ==
    [][(last'.op = "new_product"
        /\ last'.outcome \in {"KeyError", "TypeError", "ValueError"}) =>
          \A k \in 1..Len(pending.existing.refs) :
             /\ heap'[pending.existing.refs[k]].quantity
                   = heap[pending.existing.refs[k]].quantity
             /\ heap'[pending.existing.refs[k]].price = heap[pending.existing.refs[k]].price
             /\ heap'[pending.existing.refs[k]].description
                   = heap[pending.existing.refs[k]].description]_vars

(* C30: a new_product call never asks for the confirmation of a price      *)
(* decrease and lowers no price; when it merges, the product it returns is *)
(* the first of existing_products with the record's name, its price is     *)
(* afterwards >= its price before and >= the record's price, and every     *)
(* other product is unchanged.                                             *)
C30_MergeNeverLowersPrice ==
    [][last'.op = "new_product" =>
          /\ ~last'.prompted
          /\ \A i \in 1..Len(heap) : heap'[i].price >= heap[i].price
          /\ last'.merged =>
                /\ last'.ret = pending.existing.refs[FirstMatch(heap, pending.existing,
                                                                 pending.data.name.s)]
                /\ heap'[last'.ret].price >= pending.data.price.h
                /\ \A i \in 1..Len(heap) : i # last'.ret => heap'[i] = heap[i]]_vars

(* a record cheaper than the first of two different existing products of   *)
(* its name was merged into the first                                      *)
C30_Witness ==
    /\ last.op = "new_product" /\ last.merged
    /\ Len(pending.existing.refs) = 2
    /\ pending.existing.refs[1] # pending.existing.refs[2]
    /\ heap[pending.existing.refs[1]].name = heap[pending.existing.refs[2]].name
    /\ last.ret = pending.existing.refs[1]
    /\ heap[last.ret].price > pending.data.price.h
    /\ heap[last.ret].quantity = 1
    /\ heap[pending.existing.refs[2]].quantity = 0


====
